---- MODULE Spec2Model ----
(***************************************************************************)
(* Model of the on-demand ordering initialisation (the reactive pipelines  *)
(* built by OnDemandOrderingInit::createConnectionManager and createGate)  *)
(* and of the YAC voting transport (consensus::yac::NetworkImpl).          *)
(***************************************************************************)
EXTENDS Integers, Sequences, FiniteSets, TLC

(***************************************************************************)
(* Bounds of the model.                                                    *)
(***************************************************************************)
\* committed blocks delivered to one node
MaxCommits == 2
\* synchronization events delivered to one node
MaxSyncEvents == 2

\* calls made on the voting transport
MaxCalls == 3

(***************************************************************************)
(* Input domains.                                                          *)
(***************************************************************************)
\* the two configured hashes H_a, H_b (initial_hashes.at(0), .at(1))
initial_hashes == <<1, 2>>
\* hashes of committed blocks
BlockHashes == {3, 4}
\* transaction hashes
TxHashes == {"t1", "t2"}
\* ledger_peers lists of a ledger state (N = 1, 2, 3); a peer is named by a
\* string so that a peer is never mistaken for an index
PeerLists == {<<"pA">>, <<"pB", "pA">>, <<"pC", "pA", "pB">>}

kCommit == "kCommit"
kReject == "kReject"
kNothing == "kNothing"
Outcomes == {kCommit, kReject, kNothing}

\* rounds carried by sync events: a first round, a round whose reject_round
\* is not below any peer count, and the first round of the next block
Rounds == {[block_round |-> 10, reject_round |-> 0],
           [block_round |-> 10, reject_round |-> 3],
           [block_round |-> 11, reject_round |-> 0]}
LedgerStates == [ledger_peers : PeerLists]
SyncEvents == [round : Rounds, sync_outcome : Outcomes, ledger_state : LedgerStates]
\* contents of a committed block: its transactions and the hashes of the
\* transactions it rejected
BlockContents == {[transactions |-> {"t1"}, rejected_transactions_hashes |-> {}],
                  [transactions |-> {"t1"}, rejected_transactions_hashes |-> {"t2"}]}
\* batches of transactions propagated to the gate
Batches == {{"t1", "t2"}}
Blocks == {[hash |-> h,
            transactions |-> c.transactions,
            rejected_transactions_hashes |-> c.rejected_transactions_hashes] :
             h \in BlockHashes, c \in BlockContents}

(***************************************************************************)
(* Round algebra (ordering/impl/on_demand_common).                         *)
(***************************************************************************)
nextCommitRound(round) ==
  [block_round |-> round.block_round + 1, reject_round |-> 0]

nextRejectRound(round) ==
  [block_round |-> round.block_round, reject_round |-> round.reject_round + 1]

\* the RejectReject consumer serves the round two rejects after the current
\* one: "v, round 0,2 - kRejectRejectConsumer" for "o, round 0,0 - kIssuer"
currentRejectRoundConsumer(reject_round) == reject_round + 2

kNextCommitRoundConsumer == 0
kNextRejectRoundConsumer == 1

\* indexes to permutations for corresponding rounds
kCurrentRound == 0
kNextRound == 1
kRoundAfterNext == 2

\* lexicographic order on (block_round, reject_round)
RoundLess(a, b) ==
  \/ a.block_round < b.block_round
  \/ a.block_round = b.block_round /\ a.reject_round < b.reject_round

RoundLeq(a, b) == a = b \/ RoundLess(a, b)

(***************************************************************************)
(* Permutation oracle: a PRNG seeded with the hash drives a Fisher-Yates   *)
(* shuffle of 0..size-1.  The result is a sequence p with p[i+1] the       *)
(* element at the C++ index i.                                             *)
(***************************************************************************)
prngNext(s) == (s * 5 + 3) % 17

makeSeededPrng(hash) == prngNext(prngNext(hash))

Swap(p, i, j) == [p EXCEPT ![i] = p[j], ![j] = p[i]]

RECURSIVE Shuffle(_, _, _)
Shuffle(p, s, i) ==
  IF i <= 1 THEN p
  ELSE Shuffle(Swap(p, i, (s % i) + 1), prngNext(s), i - 1)

generatePermutation(hash, size) ==
  Shuffle([k \in 1..size |-> k - 1], makeSeededPrng(hash), size)

(***************************************************************************)
(* createConnectionManager: the hash pipeline                              *)
(*   all_hashes = block_hashes.start_with(H_a, H_b)                        *)
(*   latest_hashes = all_hashes.zip(all_hashes.skip(1), all_hashes.skip(2))*)
(* A pipeline state is a record                                            *)
(*   skip_left  : per zip source, the items its skip() has still to drop   *)
(*   zip_queues : per zip source, the items zip buffers for it             *)
(*   latest     : the tuple with_latest_from holds, <<>> for none           *)
(***************************************************************************)
NoValue == <<>>
Some(v) == <<v>>
HasValue(o) == o /= <<>>
ValueOf(o) == o[1]

\* sources of zip: all_hashes, all_hashes.skip(1), all_hashes.skip(2)
ZipSources == 1..3

\* the pipeline as built, before any source has been subscribed
UnsubscribedPipeline ==
  [skip_left |-> <<0, 1, 2>>,
   zip_queues |-> <<<<>>, <<>>, <<>>>>,
   latest |-> NoValue]

\* a zip that keeps the first tuple it emitted instead of the newest one
ZipOnNext_KeepFirst(p, i, h) ==
  LET queues == [p.zip_queues EXCEPT ![i] = Append(@, h)]
  IN IF \A k \in ZipSources : Len(queues[k]) > 0
     THEN [p EXCEPT !.zip_queues = [k \in ZipSources |-> Tail(queues[k])],
                    !.latest = IF HasValue(p.latest) THEN p.latest
                               ELSE Some(<<Head(queues[1]), Head(queues[2]),
                                           Head(queues[3])>>)]
     ELSE [p EXCEPT !.zip_queues = queues]

\* rx zip: an item of source i is buffered; once every source has a buffered
\* item, the heads are emitted as one tuple, which with_latest_from stores
ZipOnNext(p, i, h) ==
  LET queues == [p.zip_queues EXCEPT ![i] = Append(@, h)]
  IN IF \A k \in ZipSources : Len(queues[k]) > 0
     THEN [p EXCEPT !.zip_queues = [k \in ZipSources |-> Tail(queues[k])],
                    !.latest = Some(<<Head(queues[1]), Head(queues[2]),
                                      Head(queues[3])>>)]
     ELSE [p EXCEPT !.zip_queues = queues]

\* a skip that drops one item too few
SkipOnNext_OneLess(p, i, h) ==
  IF p.skip_left[i] > 1
  THEN [p EXCEPT !.skip_left[i] = @ - 1]
  ELSE ZipOnNext(p, i, h)

\* rx skip(n) in front of zip source i: the first n items are dropped
SkipOnNext(p, i, h) ==
  IF p.skip_left[i] > 0
  THEN [p EXCEPT !.skip_left[i] = @ - 1]
  ELSE ZipOnNext(p, i, h)

\* a hash emitted by all_hashes reaches its three subscribers in the order
\* in which zip subscribed them
AllHashesOnNext(p, h) ==
  SkipOnNext(SkipOnNext(SkipOnNext(p, 1, h), 2, h), 3, h)

\* start_with: on subscription each source first receives H_a, then H_b
StartWith(p, i) ==
  SkipOnNext(SkipOnNext(p, i, initial_hashes[1]), i, initial_hashes[2])

\* the pipeline after the connection manager has subscribed to `peers`
SubscribedPipeline ==
  StartWith(StartWith(StartWith(UnsubscribedPipeline, 1), 2), 3)

(***************************************************************************)
(* createConnectionManager: map_peers                                      *)
(***************************************************************************)
Roles == {"kIssuer", "kRejectRejectConsumer", "kRejectCommitConsumer",
          "kCommitRejectConsumer", "kCommitCommitConsumer"}

\* getOsPeer: permutations[k + 1] is the permutation of RoundType k
getOsPeer(current_peers, permutations, block_round_advance, reject_round) ==
  LET permutation == permutations[block_round_advance + 1]
  IN current_peers[permutation[(reject_round % Len(permutation)) + 1] + 1]

\* a switch in which kNothing leaves the round where it is
AdvanceRound_NothingStays(round, sync_outcome) ==
  CASE sync_outcome = kCommit -> nextCommitRound(round)
    [] sync_outcome = kReject -> nextRejectRound(round)
    [] sync_outcome = kNothing -> round

\* a switch in which kReject advances the block round as kCommit does
AdvanceRound_RejectCommits(round, sync_outcome) ==
  CASE sync_outcome \in {kCommit, kReject} -> nextCommitRound(round)
    [] sync_outcome = kNothing -> nextRejectRound(round)
    [] OTHER -> round

\* the round the switch on sync_outcome leaves in current_round
AdvanceRound(round, sync_outcome) ==
  CASE sync_outcome = kCommit -> nextCommitRound(round)
    [] sync_outcome \in {kReject, kNothing} -> nextRejectRound(round)
    [] OTHER -> round

\* a map_peers that takes the CommitReject consumer from the position of the
\* RejectCommit consumer
map_peers_CommitRejectAtZero(latest_commit, current_hashes) ==
  LET current_peers == latest_commit.ledger_state.ledger_peers
      permutations ==
        [k \in 1..3 |-> generatePermutation(current_hashes[k], Len(current_peers))]
      current_round == AdvanceRound(latest_commit.round, latest_commit.sync_outcome)
  IN [kRejectRejectConsumer |->
        getOsPeer(current_peers, permutations, kCurrentRound,
                  currentRejectRoundConsumer(current_round.reject_round)),
      kRejectCommitConsumer |->
        getOsPeer(current_peers, permutations, kNextRound, kNextCommitRoundConsumer),
      kCommitRejectConsumer |->
        getOsPeer(current_peers, permutations, kNextRound, kNextCommitRoundConsumer),
      kCommitCommitConsumer |->
        getOsPeer(current_peers, permutations, kRoundAfterNext, kNextCommitRoundConsumer),
      kIssuer |->
        getOsPeer(current_peers, permutations, kCurrentRound, current_round.reject_round)]

\* a map_peers that selects the roles from the round of the event instead of
\* the round the event leads to
map_peers_BaseRound(latest_commit, current_hashes) ==
  LET current_peers == latest_commit.ledger_state.ledger_peers
      permutations ==
        [k \in 1..3 |-> generatePermutation(current_hashes[k], Len(current_peers))]
      current_round == latest_commit.round
  IN [kRejectRejectConsumer |->
        getOsPeer(current_peers, permutations, kCurrentRound,
                  currentRejectRoundConsumer(current_round.reject_round)),
      kRejectCommitConsumer |->
        getOsPeer(current_peers, permutations, kNextRound, kNextCommitRoundConsumer),
      kCommitRejectConsumer |->
        getOsPeer(current_peers, permutations, kNextRound, kNextRejectRoundConsumer),
      kCommitCommitConsumer |->
        getOsPeer(current_peers, permutations, kRoundAfterNext, kNextCommitRoundConsumer),
      kIssuer |->
        getOsPeer(current_peers, permutations, kCurrentRound, current_round.reject_round)]

map_peers(latest_commit, current_hashes) ==
  LET current_peers == latest_commit.ledger_state.ledger_peers
      permutations ==
        [k \in 1..3 |-> generatePermutation(current_hashes[k], Len(current_peers))]
      current_round == AdvanceRound(latest_commit.round, latest_commit.sync_outcome)
  IN [kRejectRejectConsumer |->
        getOsPeer(current_peers, permutations, kCurrentRound,
                  currentRejectRoundConsumer(current_round.reject_round)),
      kRejectCommitConsumer |->
        getOsPeer(current_peers, permutations, kNextRound, kNextCommitRoundConsumer),
      kCommitRejectConsumer |->
        getOsPeer(current_peers, permutations, kNextRound, kNextRejectRoundConsumer),
      kCommitCommitConsumer |->
        getOsPeer(current_peers, permutations, kRoundAfterNext, kNextCommitRoundConsumer),
      kIssuer |->
        getOsPeer(current_peers, permutations, kCurrentRound, current_round.reject_round)]

\* a join that emits its tuple twice
WithLatestFrom_Duplicates(p, event) ==
  IF HasValue(p.latest)
  THEN <<[event |-> event, hashes |-> ValueOf(p.latest)],
         [event |-> event, hashes |-> ValueOf(p.latest)]>>
  ELSE <<>>

\* a join that, while latest_hashes has emitted nothing, pairs the event
\* with a tuple made of the initial hashes alone
WithLatestFrom_InitialHashes(p, event) ==
  IF HasValue(p.latest)
  THEN <<[event |-> event, hashes |-> ValueOf(p.latest)]>>
  ELSE <<[event |-> event,
          hashes |-> <<initial_hashes[1], initial_hashes[2], initial_hashes[2]>>]>>

\* sync_events.with_latest_from(latest_hashes): the tuples emitted for one
\* sync event (none while latest_hashes has emitted nothing)
WithLatestFrom(p, event) ==
  IF HasValue(p.latest)
  THEN <<[event |-> event, hashes |-> ValueOf(p.latest)]>>
  ELSE <<>>

(***************************************************************************)
(* createGate: the two maps handed to OnDemandOrderingGate                 *)
(***************************************************************************)
\* a commit map that forgets the rejected transactions
GateCommitMap_CommittedOnly(block) == {tx : tx \in block.transactions}

\* committed and rejected transaction hashes of a committed block
GateCommitMap(block) ==
  {tx : tx \in block.transactions} \cup block.rejected_transactions_hashes

\* a sync event map in which kNothing leaves the round where it is
GateSyncEventMap_NothingStays(event) ==
  [round |-> CASE event.sync_outcome = kCommit -> nextCommitRound(event.round)
               [] event.sync_outcome = kReject -> nextRejectRound(event.round)
               [] event.sync_outcome = kNothing -> event.round,
   ledger_state |-> event.ledger_state]

\* a sync event map in which a commit advances the reject round
GateSyncEventMap_CommitRejects(event) ==
  [round |-> nextRejectRound(event.round), ledger_state |-> event.ledger_state]

GateSyncEventMap(event) ==
  [round |-> CASE event.sync_outcome = kCommit -> nextCommitRound(event.round)
               [] event.sync_outcome = kReject -> nextRejectRound(event.round)
               [] event.sync_outcome = kNothing -> nextRejectRound(event.round),
   ledger_state |-> event.ledger_state]

\* the gate removes the hashes of the eviction set from its cache
CacheRemove(cache, hashes) == cache \ hashes

(***************************************************************************)
(* The YAC voting transport, consensus::yac::NetworkImpl.                  *)
(***************************************************************************)
\* threads that call into the transport
Threads == {1, 2}
\* destination peers of sendState
NetPeers == {"peerX", "peerY"}
\* notification handlers (YacNetworkNotifications objects); NoHandler is the
\* empty weak_ptr
Handlers == {"h1", "h2"}
NoHandler == "none"
\* no thread holds stop_mutex_
Unlocked == 0

OK == "OK"
CANCELLED == "CANCELLED"

\* a proto::Vote: the hash it votes for, its round, and whether its
\* signatures can be deserialized
PbVote(hash, round, valid) == [hash |-> hash, round |-> round, valid |-> valid]
\* a VoteMessage
Vote(hash, round) == [hash |-> hash, round |-> round]

R50 == [block_round |-> 5, reject_round |-> 0]
R51 == [block_round |-> 5, reject_round |-> 1]

\* inbound proto::State messages (their votes)
Requests ==
  {<<>>,
   <<PbVote("a", R50, TRUE)>>,
   <<PbVote("a", R50, TRUE), PbVote("b", R50, TRUE)>>,
   <<PbVote("a", R50, TRUE), PbVote("b", R51, TRUE)>>,
   <<PbVote("a", R50, FALSE)>>,
   <<PbVote("a", R50, TRUE), PbVote("b", R50, FALSE)>>,
   <<PbVote("a", R50, FALSE), PbVote("b", R51, TRUE)>>}

\* vote lists handed to sendState
States ==
  {<<Vote("a", R50)>>, <<Vote("a", R50), Vote("b", R51)>>}

\* PbConverters::serializeVote
serializeVote(vote) == PbVote(vote.hash, vote.round, TRUE)

\* a conversion that yields a vote whatever the signatures are
deserializeVote_AlwaysSucceeds(pb_vote) ==
  Some(Vote(pb_vote.hash, pb_vote.round))

\* PbConverters::deserializeVote: no vote when the signatures cannot be
\* deserialized
deserializeVote(pb_vote) ==
  IF pb_vote.valid THEN Some(Vote(pb_vote.hash, pb_vote.round)) ELSE NoValue

\* a loop that keeps a vote whether or not it deserialized
RECURSIVE DeserializeVotes_KeepsAll(_)
DeserializeVotes_KeepsAll(pb_votes) ==
  IF pb_votes = <<>> THEN <<>>
  ELSE <<Vote(Head(pb_votes).hash, Head(pb_votes).round)>>
         \o DeserializeVotes_KeepsAll(Tail(pb_votes))

\* the loop of SendState: the votes that deserialize, in message order
RECURSIVE DeserializeVotes(_)
DeserializeVotes(pb_votes) ==
  IF pb_votes = <<>> THEN <<>>
  ELSE LET vote == deserializeVote(Head(pb_votes))
       IN (IF HasValue(vote) THEN <<ValueOf(vote)>> ELSE <<>>)
            \o DeserializeVotes(Tail(pb_votes))

\* sameKeys of yac_common: every vote has the round of the first
sameKeys(state) == \A i \in 1..Len(state) : state[i].round = state[1].round

\* a check that rejects the empty collection only
Rejected_EmptyOnly(state) == state = <<>>

\* the two checks of SendState that return CANCELLED
Rejected(state) == state = <<>> \/ ~sameKeys(state)

\* a lock() that yields the handler although its owner has released it
Notifications_LocksExpired(handler, owned, state) ==
  IF handler /= NoHandler
  THEN <<[handler |-> handler, state |-> state]>>
  ELSE <<>>

\* the onState invocations SendState makes: one when handler_.lock() gives a
\* handler, none when the weak_ptr is empty or expired
Notifications(handler, owned, state) ==
  IF handler /= NoHandler /\ handler \in owned
  THEN <<[handler |-> handler, state |-> state]>>
  ELSE <<>>

\* node: the ordering subsystem of every node (described further below)
VARIABLES node

\* stop_requested_, stop_mutex_, handler_: the members of NetworkImpl
\* alive: the handlers some shared_ptr still owns
\* pc, call: per thread, where it is in its call and the call's locals
\* calls: calls made so far; stop_returned: a stop() has returned
\* send_dropped: sendState calls that returned at the stop check
\* factory_calls: the createClient calls; dispatched: the async_call_->Call calls
\* recv_count, last_recv: the SendState rpcs that returned, and the last one
\* on_state_count: the onState invocations made
\* stop_count: the stop() calls that returned
\* last_subscribed: the handler of the latest subscribe call
\* replaced: the handler_ that call overwrote
\* submitted: the threads inside sendState, in the order they entered it
VARIABLES stop_requested_, stop_mutex_, handler_, alive, pc, call, calls,
          stop_returned, send_dropped, factory_calls, dispatched,
          recv_count, last_recv, on_state_count, stop_count, last_subscribed,
          replaced, submitted

net_vars == <<stop_requested_, stop_mutex_, handler_, alive, pc, call, calls,
              stop_returned, send_dropped, factory_calls, dispatched,
              recv_count, last_recv, on_state_count, stop_count,
              last_subscribed, replaced, submitted>>

NoCall == [op |-> "none"]

InitNet ==
  /\ stop_requested_ = FALSE
  /\ stop_mutex_ = Unlocked
  /\ handler_ = NoHandler
  /\ alive = Handlers
  /\ pc = [t \in Threads |-> "idle"]
  /\ call = [t \in Threads |-> NoCall]
  /\ calls = 0
  /\ stop_returned = FALSE
  /\ send_dropped = 0
  /\ factory_calls = <<>>
  /\ dispatched = <<>>
  /\ recv_count = 0
  /\ last_recv = NoValue
  /\ on_state_count = 0
  /\ stop_count = 0
  /\ last_subscribed = NoHandler
  /\ replaced = NoHandler
  /\ submitted = <<>>

\* a sequence without the elements equal to x
Without(seq, x) == SelectSeq(seq, LAMBDA y : y /= x)

\* thread u entered the sendState it is in before thread t entered its own
SubmittedBefore(u, t) ==
  \E i, j \in 1..Len(submitted) : i < j /\ submitted[i] = u /\ submitted[j] = t

\* what a returning call leaves behind
Return(t) ==
  /\ pc' = [pc EXCEPT ![t] = "idle"]
  /\ call' = [call EXCEPT ![t] = NoCall]

\* a subscribe that keeps a handler that is already registered
subscribe_KeepsFirst(t, handler) ==
  /\ pc[t] = "idle"
  /\ calls < MaxCalls
  /\ handler \in alive
  /\ handler_' = IF handler_ = NoHandler THEN handler ELSE handler_
  /\ last_subscribed' = handler
  /\ replaced' = handler_
  /\ calls' = calls + 1
  /\ UNCHANGED <<node, stop_count, submitted, stop_requested_, stop_mutex_,
                 alive, pc, call, stop_returned, send_dropped, factory_calls,
                 dispatched, recv_count, last_recv, on_state_count>>

\* NetworkImpl::subscribe: handler_ = handler
subscribe(t, handler) ==
  /\ pc[t] = "idle"
  /\ calls < MaxCalls
  /\ handler \in alive
  /\ handler_' = handler
  /\ last_subscribed' = handler
  /\ replaced' = handler_
  /\ calls' = calls + 1
  /\ UNCHANGED <<node, stop_count, submitted,
                 stop_requested_, stop_mutex_, alive, pc, call, stop_returned, send_dropped,
                 factory_calls, dispatched, recv_count, last_recv,
                 on_state_count>>

\* the owner of a handler releases the last shared_ptr to it
HandlerDestroyed(handler) ==
  /\ handler \in alive
  /\ alive' = alive \ {handler}
  /\ UNCHANGED <<node, stop_count, last_subscribed, replaced, submitted,
                 stop_requested_, stop_mutex_, handler_, pc, call, calls,
                 stop_returned, send_dropped, factory_calls, dispatched, recv_count,
                 last_recv, on_state_count>>

\* NetworkImpl::stop is entered
stopEnter(t) ==
  /\ pc[t] = "idle"
  /\ calls < MaxCalls
  /\ pc' = [pc EXCEPT ![t] = "stop_lock"]
  /\ call' = [call EXCEPT ![t] = [op |-> "stop"]]
  /\ calls' = calls + 1
  /\ UNCHANGED <<node, stop_count, last_subscribed, replaced, submitted,
                 stop_requested_, stop_mutex_, handler_, alive, stop_returned, send_dropped,
                 factory_calls, dispatched, recv_count, last_recv,
                 on_state_count>>

\* a stop that goes on to the flag without taking stop_mutex_
stopLock_NoLock(t) ==
  /\ pc[t] = "stop_lock"
  /\ pc' = [pc EXCEPT ![t] = "stop_set"]
  /\ UNCHANGED <<node, stop_count, last_subscribed, replaced, submitted,
                 stop_requested_, stop_mutex_, handler_, alive, call, calls,
                 stop_returned, send_dropped, factory_calls, dispatched,
                 recv_count, last_recv, on_state_count>>

\* std::lock_guard<std::mutex> stop_lock(stop_mutex_)
stopLock(t) ==
  /\ pc[t] = "stop_lock"
  /\ stop_mutex_ = Unlocked
  /\ stop_mutex_' = t
  /\ pc' = [pc EXCEPT ![t] = "stop_set"]
  /\ UNCHANGED <<node, stop_count, last_subscribed, replaced, submitted,
                 stop_requested_, handler_, alive, call, calls, stop_returned, send_dropped,
                 factory_calls, dispatched, recv_count, last_recv,
                 on_state_count>>

\* a stop that flips the flag instead of setting it
stopSet_Toggles(t) ==
  /\ pc[t] = "stop_set"
  /\ stop_requested_' = ~stop_requested_
  /\ stop_mutex_' = Unlocked
  /\ stop_returned' = TRUE
  /\ stop_count' = stop_count + 1
  /\ Return(t)
  /\ UNCHANGED <<node, last_subscribed, replaced, submitted, handler_, alive,
                 calls, send_dropped, factory_calls, dispatched, recv_count,
                 last_recv, on_state_count>>

\* stop_requested_ = true; the lock is released and stop returns
stopSet(t) ==
  /\ pc[t] = "stop_set"
  /\ stop_requested_' = TRUE
  /\ stop_mutex_' = Unlocked
  /\ stop_returned' = TRUE
  /\ stop_count' = stop_count + 1
  /\ Return(t)
  /\ UNCHANGED <<node, last_subscribed, replaced, submitted,
                 handler_, alive, calls, send_dropped, factory_calls,
                 dispatched, recv_count, last_recv, on_state_count>>

\* NetworkImpl::sendState is entered; after_stop records whether a stop()
\* had returned by then; overtaken becomes true when a call submitted later
\* for the same peer hands its message to async_call_ first
sendStateEnter(t, to, state) ==
  /\ pc[t] = "idle"
  /\ calls < MaxCalls
  /\ pc' = [pc EXCEPT ![t] = "send_lock"]
  /\ call' = [call EXCEPT ![t] = [op |-> "sendState", to |-> to, state |-> state,
                                  request |-> <<>>, after_stop |-> stop_returned,
                                  overtaken |-> FALSE]]
  /\ submitted' = Append(submitted, t)
  /\ calls' = calls + 1
  /\ UNCHANGED <<node, stop_count, last_subscribed, replaced,
                 stop_requested_, stop_mutex_, handler_, alive, stop_returned, send_dropped,
                 factory_calls, dispatched, recv_count, last_recv,
                 on_state_count>>

\* std::lock_guard<std::mutex> stop_lock(stop_mutex_)
sendStateLock(t) ==
  /\ pc[t] = "send_lock"
  /\ stop_mutex_ = Unlocked
  /\ stop_mutex_' = t
  /\ pc' = [pc EXCEPT ![t] = "send_check"]
  /\ UNCHANGED <<node, stop_count, last_subscribed, replaced, submitted,
                 stop_requested_, handler_, alive, call, calls, stop_returned, send_dropped,
                 factory_calls, dispatched, recv_count, last_recv,
                 on_state_count>>

\* a sendState that gives the lock back as soon as it has read the flag
sendStateCheck_ReleasesLock(t) ==
  /\ pc[t] = "send_check"
  /\ stop_mutex_' = Unlocked
  /\ IF stop_requested_
     THEN /\ send_dropped' = send_dropped + 1
          /\ submitted' = Without(submitted, t)
          /\ Return(t)
     ELSE /\ pc' = [pc EXCEPT ![t] = "send_create"]
          /\ call' = [call EXCEPT ![t].request =
                        [i \in 1..Len(call[t].state) |->
                           serializeVote(call[t].state[i])]]
          /\ UNCHANGED <<send_dropped, submitted>>
  /\ UNCHANGED <<node, stop_count, last_subscribed, replaced,
                 stop_requested_, handler_, alive, calls, stop_returned,
                 factory_calls, dispatched, recv_count, last_recv,
                 on_state_count>>

\* a sendState that does not look at the stop flag
sendStateCheck_IgnoresStop(t) ==
  /\ pc[t] = "send_check"
  /\ pc' = [pc EXCEPT ![t] = "send_create"]
  /\ call' = [call EXCEPT ![t].request =
                [i \in 1..Len(call[t].state) |-> serializeVote(call[t].state[i])]]
  /\ UNCHANGED <<node, stop_count, last_subscribed, replaced, submitted,
                 stop_requested_, stop_mutex_, handler_, alive, calls,
                 stop_returned, send_dropped, factory_calls, dispatched,
                 recv_count, last_recv, on_state_count>>

\* if (stop_requested_) return; otherwise the votes are serialized into the
\* request
sendStateCheck(t) ==
  /\ pc[t] = "send_check"
  /\ IF stop_requested_
     THEN /\ stop_mutex_' = Unlocked
          /\ send_dropped' = send_dropped + 1
          /\ submitted' = Without(submitted, t)
          /\ Return(t)
     ELSE /\ pc' = [pc EXCEPT ![t] = "send_create"]
          /\ call' = [call EXCEPT ![t].request =
                        [i \in 1..Len(call[t].state) |->
                           serializeVote(call[t].state[i])]]
          /\ UNCHANGED <<stop_mutex_, send_dropped, submitted>>
  /\ UNCHANGED <<node, stop_count, last_subscribed, replaced,
                 stop_requested_, handler_, alive, calls, stop_returned,
                 factory_calls, dispatched, recv_count, last_recv,
                 on_state_count>>

\* a sendState that gives up sending for good when no client can be created
sendStateCreateClient_StopsOnFailure(t, created) ==
  /\ pc[t] = "send_create"
  /\ factory_calls' = Append(factory_calls,
                             [to |-> call[t].to, after_stop |-> call[t].after_stop])
  /\ dispatched' =
       IF created
       THEN Append(dispatched, [to |-> call[t].to, request |-> call[t].request,
                                after_stop |-> call[t].after_stop,
                                overtaken |-> call[t].overtaken])
       ELSE dispatched
  /\ stop_requested_' = (stop_requested_ \/ ~created)
  /\ stop_mutex_' = Unlocked
  /\ submitted' = Without(submitted, t)
  /\ pc' = [pc EXCEPT ![t] = "idle"]
  /\ call' = [u \in Threads |->
               IF u = t THEN NoCall
               ELSE IF created /\ SubmittedBefore(u, t) /\ call[u].to = call[t].to
                    THEN [call[u] EXCEPT !.overtaken = TRUE]
                    ELSE call[u]]
  /\ UNCHANGED <<node, stop_count, last_subscribed, replaced,
                 handler_, alive, calls, stop_returned,
                 send_dropped, recv_count, last_recv, on_state_count>>

\* a sendState whose request gets ahead of the requests handed over before
sendStateCreateClient_Prepends(t, created) ==
  /\ pc[t] = "send_create"
  /\ factory_calls' = Append(factory_calls,
                             [to |-> call[t].to, after_stop |-> call[t].after_stop])
  /\ dispatched' =
       IF created
       THEN <<[to |-> call[t].to, request |-> call[t].request,
               after_stop |-> call[t].after_stop,
               overtaken |-> call[t].overtaken]>> \o dispatched
       ELSE dispatched
  /\ stop_mutex_' = Unlocked
  /\ submitted' = Without(submitted, t)
  /\ pc' = [pc EXCEPT ![t] = "idle"]
  /\ call' = [u \in Threads |-> IF u = t THEN NoCall ELSE call[u]]
  /\ UNCHANGED <<node, stop_count, last_subscribed, replaced,
                 stop_requested_, handler_, alive, calls, stop_returned,
                 send_dropped, recv_count, last_recv, on_state_count>>

\* client_factory_->createClient(to).match(...): with a client the request is
\* handed to async_call_->Call, without one the error is logged; the lock is
\* released and sendState returns
sendStateCreateClient(t, created) ==
  /\ pc[t] = "send_create"
  /\ factory_calls' = Append(factory_calls,
                             [to |-> call[t].to, after_stop |-> call[t].after_stop])
  /\ dispatched' =
       IF created
       THEN Append(dispatched, [to |-> call[t].to, request |-> call[t].request,
                                after_stop |-> call[t].after_stop,
                                overtaken |-> call[t].overtaken])
       ELSE dispatched
  /\ stop_mutex_' = Unlocked
  /\ submitted' = Without(submitted, t)
  /\ pc' = [pc EXCEPT ![t] = "idle"]
  /\ call' = [u \in Threads |->
               IF u = t THEN NoCall
               ELSE IF created /\ SubmittedBefore(u, t) /\ call[u].to = call[t].to
                    THEN [call[u] EXCEPT !.overtaken = TRUE]
                    ELSE call[u]]
  /\ UNCHANGED <<node, stop_count, last_subscribed, replaced,
                 stop_requested_, handler_, alive, calls, stop_returned, send_dropped,
                 recv_count, last_recv, on_state_count>>

\* NetworkImpl::SendState, the rpc: the votes are deserialized and checked;
\* a rejected bundle returns CANCELLED
SendStateValidate(t, request) ==
  /\ pc[t] = "idle"
  /\ calls < MaxCalls
  /\ calls' = calls + 1
  /\ LET state == DeserializeVotes(request)
     IN IF Rejected(state)
        THEN /\ recv_count' = recv_count + 1
             /\ last_recv' = Some([request |-> request, status |-> CANCELLED,
                                   seen_handler |-> handler_, seen_alive |-> alive,
                                   stopped |-> stop_requested_,
                                   on_state |-> <<>>])
             /\ UNCHANGED <<pc, call>>
        ELSE /\ pc' = [pc EXCEPT ![t] = "recv_notify"]
             /\ call' = [call EXCEPT ![t] = [op |-> "SendState", request |-> request,
                                             state |-> state]]
             /\ UNCHANGED <<recv_count, last_recv>>
  /\ UNCHANGED <<node, stop_count, last_subscribed, replaced, submitted,
                 stop_requested_, stop_mutex_, handler_, alive, stop_returned, send_dropped,
                 factory_calls, dispatched, on_state_count>>

\* an rpc that stops notifying the handler once stop() has been called
SendStateNotify_SilentAfterStop(t) ==
  /\ pc[t] = "recv_notify"
  /\ LET invoked == IF stop_requested_ THEN <<>>
                    ELSE Notifications(handler_, alive, call[t].state)
     IN /\ on_state_count' = on_state_count + Len(invoked)
        /\ recv_count' = recv_count + 1
        /\ last_recv' = Some([request |-> call[t].request, status |-> OK,
                              seen_handler |-> handler_, seen_alive |-> alive,
                              stopped |-> stop_requested_,
                              on_state |-> invoked])
  /\ Return(t)
  /\ UNCHANGED <<node, stop_count, last_subscribed, replaced, submitted,
                 stop_requested_, stop_mutex_, handler_, alive, calls,
                 stop_returned, send_dropped, factory_calls, dispatched>>

\* if (auto notifications = handler_.lock()) notifications->onState(state);
\* return grpc::Status::OK
SendStateNotify(t) ==
  /\ pc[t] = "recv_notify"
  /\ LET invoked == Notifications(handler_, alive, call[t].state)
     IN /\ on_state_count' = on_state_count + Len(invoked)
        /\ recv_count' = recv_count + 1
        /\ last_recv' = Some([request |-> call[t].request, status |-> OK,
                              seen_handler |-> handler_, seen_alive |-> alive,
                              stopped |-> stop_requested_,
                              on_state |-> invoked])
  /\ Return(t)
  /\ UNCHANGED <<node, stop_count, last_subscribed, replaced, submitted,
                 stop_requested_, stop_mutex_, handler_, alive, calls,
                 stop_returned, send_dropped, factory_calls, dispatched>>

(***************************************************************************)
(* State.  node[n] is the ordering subsystem of node n: the pipeline of    *)
(* its connection manager (cm), the cache of its gate, and a record of     *)
(* what its observables have emitted so far:                               *)
(*   committed, last_block      blocks delivered by commit_notifier         *)
(*   evict_count, last_evict    hash sets emitted by the gate's commit map  *)
(*   sync_count, last_event     events delivered by sync_event_notifier     *)
(*   switch_count, last_switch, prev_switch   RoundSwitch values emitted    *)
(*   pair_count, last_pair      tuples emitted by sync_events_with_hashes   *)
(*   peers_count, last_peers    CurrentPeers values emitted by `peers`      *)
(*   terminated                 the process was ended by a trap             *)
(***************************************************************************)
Nodes == {"node1", "node2"}
\* the node whose local trace the single-node specification follows
Local == "node1"

InitNode ==
  [cm |-> SubscribedPipeline,
   cache |-> {},
   committed |-> <<>>,
   last_block |-> NoValue,
   evict_count |-> 0, last_evict |-> NoValue,
   sync_count |-> 0, last_event |-> NoValue,
   switch_count |-> 0, last_switch |-> NoValue, prev_switch |-> NoValue,
   pair_count |-> 0, last_pair |-> NoValue,
   peers_count |-> 0, last_peers |-> NoValue,
   terminated |-> FALSE]

\* a delivery of a block that also derives the bindings of the latest paired
\* event again, from the window the block has advanced
OnCommit_RefreshesBindings(s, block) ==
  LET hashes == GateCommitMap(block)
      cm == AllHashesOnNext(s.cm, block.hash)
      refresh == HasValue(s.last_pair) /\ HasValue(cm.latest)
  IN [s EXCEPT !.cm = cm,
               !.committed = Append(@, block.hash),
               !.last_block = Some(block),
               !.evict_count = @ + 1,
               !.last_evict = Some(hashes),
               !.cache = CacheRemove(@, hashes),
               !.peers_count = IF refresh THEN @ + 1 ELSE @,
               !.last_peers =
                 IF refresh
                 THEN Some(map_peers(ValueOf(s.last_pair).event, ValueOf(cm.latest)))
                 ELSE @]

\* commit_notifier.get_subscriber().on_next(block): the block reaches the
\* hash pipeline of the connection manager and the commit map of the gate
OnCommit(s, block) ==
  LET hashes == GateCommitMap(block)
  IN [s EXCEPT !.cm = AllHashesOnNext(@, block.hash),
               !.committed = Append(@, block.hash),
               !.last_block = Some(block),
               !.evict_count = @ + 1,
               !.last_evict = Some(hashes),
               !.cache = CacheRemove(@, hashes)]

\* a delivery that rebinds the Issuer only and keeps the consumers of the
\* previous binding
OnSyncEvent_IssuerOnly(s, event) ==
  LET pairs == WithLatestFrom(s.cm, event)
      emitted == [i \in 1..Len(pairs) |-> map_peers(pairs[i].event, pairs[i].hashes)]
  IN [s EXCEPT !.sync_count = @ + 1,
               !.last_event = Some(event),
               !.switch_count = @ + 1,
               !.prev_switch = s.last_switch,
               !.last_switch = Some(GateSyncEventMap(event)),
               !.pair_count = @ + Len(pairs),
               !.last_pair = IF pairs = <<>> THEN @ ELSE Some(pairs[Len(pairs)]),
               !.peers_count = @ + Len(emitted),
               !.last_peers =
                 IF emitted = <<>> THEN @
                 ELSE IF HasValue(s.last_peers)
                      THEN Some([ValueOf(s.last_peers) EXCEPT
                                   !.kIssuer = emitted[Len(emitted)].kIssuer])
                      ELSE Some(emitted[Len(emitted)])]

\* a delivery that updates the bindings in place and leaves the Issuer of the
\* previous binding where it is
OnSyncEvent_KeepIssuer(s, event) ==
  LET pairs == WithLatestFrom(s.cm, event)
      emitted == [i \in 1..Len(pairs) |-> map_peers(pairs[i].event, pairs[i].hashes)]
  IN [s EXCEPT !.sync_count = @ + 1,
               !.last_event = Some(event),
               !.switch_count = @ + 1,
               !.prev_switch = s.last_switch,
               !.last_switch = Some(GateSyncEventMap(event)),
               !.pair_count = @ + Len(pairs),
               !.last_pair = IF pairs = <<>> THEN @ ELSE Some(pairs[Len(pairs)]),
               !.peers_count = @ + Len(emitted),
               !.last_peers =
                 IF emitted = <<>> THEN @
                 ELSE IF HasValue(s.last_peers)
                      THEN Some([emitted[Len(emitted)] EXCEPT
                                   !.kIssuer = ValueOf(s.last_peers).kIssuer])
                      ELSE Some(emitted[Len(emitted)])]

\* sync_event_notifier.get_subscriber().on_next(event): the event reaches
\* with_latest_from and map_peers, and the sync event map of the gate
OnSyncEvent(s, event) ==
  LET pairs == WithLatestFrom(s.cm, event)
      emitted == [i \in 1..Len(pairs) |-> map_peers(pairs[i].event, pairs[i].hashes)]
  IN [s EXCEPT !.sync_count = @ + 1,
               !.last_event = Some(event),
               !.switch_count = @ + 1,
               !.prev_switch = s.last_switch,
               !.last_switch = Some(GateSyncEventMap(event)),
               !.pair_count = @ + Len(pairs),
               !.last_pair = IF pairs = <<>> THEN @ ELSE Some(pairs[Len(pairs)]),
               !.peers_count = @ + Len(emitted),
               !.last_peers = IF emitted = <<>> THEN @ ELSE Some(emitted[Len(emitted)])]

\* the transactions of a propagated batch become pending in the gate cache
OnPropagateBatch(s, batch) == [s EXCEPT !.cache = @ \cup batch]

\* map_peers would run for the event with an empty peer list: every
\* permutation is empty and getOsPeer evaluates reject_round % 0
DivisionByZero(s, event) ==
  /\ WithLatestFrom(s.cm, event) /= <<>>
  /\ Len(event.ledger_state.ledger_peers) = 0

\* what the build can make of reject_round % 0 in getOsPeer: the division
\* traps and the process ends, or it yields some index and each role is
\* bound to whatever is read past the end of the empty containers
kTrap == "trap"
kGarbage == "garbage"
UndefinedOutcomes == {kTrap, kGarbage}
GarbagePeer == "?"

\* the delivery of an event for which map_peers divides by zero
OnSyncEventUndefined(s, event, outcome) ==
  IF outcome = kTrap
  THEN [s EXCEPT !.sync_count = @ + 1,
                 !.last_event = Some(event),
                 !.terminated = TRUE]
  ELSE LET pairs == WithLatestFrom(s.cm, event)
       IN [s EXCEPT !.sync_count = @ + 1,
                    !.last_event = Some(event),
                    !.switch_count = @ + 1,
                    !.prev_switch = s.last_switch,
                    !.last_switch = Some(GateSyncEventMap(event)),
                    !.pair_count = @ + Len(pairs),
                    !.last_pair = Some(pairs[Len(pairs)]),
                    !.peers_count = @ + Len(pairs),
                    !.last_peers = Some([role \in Roles |-> GarbagePeer])]

Commit(n, block) ==
  /\ ~node[n].terminated
  /\ Len(node[n].committed) < MaxCommits
  /\ node' = [node EXCEPT ![n] = OnCommit(@, block)]
  /\ UNCHANGED net_vars

SyncEvent(n, event) ==
  /\ ~node[n].terminated
  /\ ~DivisionByZero(node[n], event)
  /\ node[n].sync_count < MaxSyncEvents
  /\ node' = [node EXCEPT ![n] = OnSyncEvent(@, event)]
  /\ UNCHANGED net_vars

SyncEventUndefined(n, event, outcome) ==
  /\ ~node[n].terminated
  /\ DivisionByZero(node[n], event)
  /\ node[n].sync_count < MaxSyncEvents
  /\ node' = [node EXCEPT ![n] = OnSyncEventUndefined(@, event, outcome)]
  /\ UNCHANGED net_vars

PropagateBatch(n, batch) ==
  /\ ~node[n].terminated
  /\ ~(batch \subseteq node[n].cache)
  /\ node' = [node EXCEPT ![n] = OnPropagateBatch(@, batch)]
  /\ UNCHANGED net_vars

vars == <<node, net_vars>>

Init ==
  /\ node = [n \in Nodes |-> InitNode]
  /\ InitNet

Next ==
  \/ \E block \in Blocks : Commit(Local, block)
  \/ \E event \in SyncEvents : SyncEvent(Local, event)
  \/ \E batch \in Batches : PropagateBatch(Local, batch)

Spec == Init /\ [][Next]_vars

(***************************************************************************)
(* The voting transport called from two threads.                           *)
(***************************************************************************)
NextNet ==
  \/ \E t \in Threads, handler \in Handlers : subscribe(t, handler)
  \/ \E handler \in Handlers : HandlerDestroyed(handler)
  \/ \E t \in Threads : stopEnter(t)
  \/ \E t \in Threads : stopLock(t)
  \/ \E t \in Threads : stopSet(t)
  \/ \E t \in Threads, to \in NetPeers, state \in States :
       sendStateEnter(t, to, state)
  \/ \E t \in Threads : sendStateLock(t)
  \/ \E t \in Threads : sendStateCheck(t)
  \/ \E t \in Threads, created \in BOOLEAN :
        sendStateCreateClient(t, created)
  \/ \E t \in Threads, request \in Requests :
        SendStateValidate(t, request)
  \/ \E t \in Threads : SendStateNotify(t)

SpecNet == Init /\ [][NextNet]_vars

(***************************************************************************)
(* Two nodes side by side: every node receives its own committed blocks    *)
(* and its own sync events.                                                *)
(***************************************************************************)
\* the inputs of the side-by-side run: blocks of one content, and sync events
\* over one ledger state of three peers
SideBySideBlocks ==
  {b \in Blocks : b.transactions = {"t1"} /\ b.rejected_transactions_hashes = {}}
SideBySideEvents ==
  {e \in SyncEvents : /\ Len(e.ledger_state.ledger_peers) = 3
                       /\ e.round = [block_round |-> 10, reject_round |-> 3]
                       /\ e.sync_outcome \in {kCommit, kReject}}

NextSideBySide ==
  \/ \E n \in Nodes, block \in SideBySideBlocks : Commit(n, block)
  \/ \E n \in Nodes, event \in SideBySideEvents : SyncEvent(n, event)

SpecSideBySide == Init /\ [][NextSideBySide]_vars

(***************************************************************************)
(* One node whose synchronizer may deliver a ledger state without peers.   *)
(***************************************************************************)
EmptyPeersRound == [block_round |-> 10, reject_round |-> 0]
\* sync events over the empty peer list and over a list of two peers
EmptyPeersEvents ==
  {[round |-> EmptyPeersRound, sync_outcome |-> o,
    ledger_state |-> [ledger_peers |-> ps]] :
     o \in {kCommit, kReject}, ps \in {<<>>, <<"pB", "pA">>}}

NextEmptyPeers ==
  \/ \E block \in SideBySideBlocks : Commit(Local, block)
  \/ \E event \in EmptyPeersEvents : SyncEvent(Local, event)
  \/ \E event \in EmptyPeersEvents, outcome \in UndefinedOutcomes :
       SyncEventUndefined(Local, event, outcome)

SpecEmptyPeers == Init /\ [][NextEmptyPeers]_vars

(***************************************************************************)
(* One node whose synchronizer may deliver a sync_outcome that is none of  *)
(* kCommit, kReject, kNothing.                                             *)
(***************************************************************************)
\* a SynchronizationOutcomeType outside the three enumerators
kUnknown == "kUnknown"
\* builds with assertions enabled and with NDEBUG
kDebug == "debug"
kRelease == "release"
Builds == {kDebug, kRelease}
\* what `consensus::Round current_round;` holds when no case of the switch
\* assigns it: the declaration names no value
DefaultRounds == {[block_round |-> 0, reject_round |-> 0],
                  [block_round |-> 7, reject_round |-> 9]}

\* the default case of the switch in the sync event map of createGate with
\* NDEBUG: the error is logged, assert(false) is compiled out, and the
\* RoundSwitch is built from the unassigned current_round
GateSyncEventMapDefault(event, default_round) ==
  [round |-> default_round, ledger_state |-> event.ledger_state]

\* the delivery of an event of unknown outcome: with assertions the process
\* aborts at assert(false) / BOOST_ASSERT_MSG(false, ...); with NDEBUG the
\* gate emits its RoundSwitch and map_peers, whose default case is empty,
\* goes on with the round of the event
OnSyncEventUnknown(s, event, build, default_round) ==
  IF build = kDebug
  THEN [s EXCEPT !.sync_count = @ + 1,
                 !.last_event = Some(event),
                 !.terminated = TRUE]
  ELSE LET pairs == WithLatestFrom(s.cm, event)
           emitted == [i \in 1..Len(pairs) |->
                         map_peers(pairs[i].event, pairs[i].hashes)]
       IN [s EXCEPT !.sync_count = @ + 1,
                    !.last_event = Some(event),
                    !.switch_count = @ + 1,
                    !.prev_switch = s.last_switch,
                    !.last_switch =
                      Some(GateSyncEventMapDefault(event, default_round)),
                    !.pair_count = @ + Len(pairs),
                    !.last_pair =
                      IF pairs = <<>> THEN @ ELSE Some(pairs[Len(pairs)]),
                    !.peers_count = @ + Len(emitted),
                    !.last_peers =
                      IF emitted = <<>> THEN @ ELSE Some(emitted[Len(emitted)])]

SyncEventUnknown(n, event, build, default_round) ==
  /\ ~node[n].terminated
  /\ event.sync_outcome = kUnknown
  /\ node[n].sync_count < MaxSyncEvents
  /\ node' = [node EXCEPT ![n] = OnSyncEventUnknown(@, event, build, default_round)]
  /\ UNCHANGED net_vars

UnknownOutcomeRounds == {[block_round |-> 10, reject_round |-> 0],
                         [block_round |-> 10, reject_round |-> 3]}
\* sync events of unknown and of known outcome over a list of three peers
UnknownOutcomeEvents ==
  {[round |-> r, sync_outcome |-> o,
    ledger_state |-> [ledger_peers |-> <<"pC", "pA", "pB">>]] :
     r \in UnknownOutcomeRounds, o \in {kUnknown, kReject}}

NextUnknownOutcome ==
  \/ \E block \in SideBySideBlocks : Commit(Local, block)
  \/ \E event \in {e \in UnknownOutcomeEvents : e.sync_outcome /= kUnknown} :
       SyncEvent(Local, event)
  \/ \E event \in UnknownOutcomeEvents, build \in Builds,
        default_round \in DefaultRounds :
       SyncEventUnknown(Local, event, build, default_round)

SpecUnknownOutcome == Init /\ [][NextUnknownOutcome]_vars

(***************************************************************************)
(* subscribe on one thread while the SendState rpc runs on another.  The   *)
(* assignment handler_ = handler and the read handler_.lock() take no lock *)
(* and handler_ is a plain std::weak_ptr: a read that falls inside the     *)
(* assignment is a data race.                                              *)
(***************************************************************************)
Writer == 1
Reader == 2
\* a weak_ptr read while it is assigned: the object pointer of one reference
\* with the control block of the other
kTornReference == "torn"

\* NetworkImpl::subscribe is entered and starts to assign handler_
subscribeBegin(t, handler) ==
  /\ pc[t] = "idle"
  /\ calls < MaxCalls
  /\ handler \in alive
  /\ pc' = [pc EXCEPT ![t] = "sub_write"]
  /\ call' = [call EXCEPT ![t] = [op |-> "subscribe", handler |-> handler]]
  /\ calls' = calls + 1
  /\ UNCHANGED <<node, stop_count, last_subscribed, replaced, submitted,
                 stop_requested_, stop_mutex_, handler_, alive, stop_returned,
                 send_dropped, factory_calls, dispatched, recv_count, last_recv,
                 on_state_count>>

\* the assignment handler_ = handler is complete and subscribe returns
subscribeEnd(t) ==
  /\ pc[t] = "sub_write"
  /\ handler_' = call[t].handler
  /\ last_subscribed' = call[t].handler
  /\ replaced' = handler_
  /\ Return(t)
  /\ UNCHANGED <<node, stop_count, submitted, stop_requested_, stop_mutex_,
                 alive, calls, stop_returned, send_dropped, factory_calls,
                 dispatched, recv_count, last_recv, on_state_count>>

\* some thread is inside the assignment of handler_
Assigning == \E u \in Threads : pc[u] = "sub_write"

\* what handler_.lock() can observe while thread u assigns handler_: the
\* reference before the assignment, the one being assigned, or a mix of both
RacingReads(u) == {handler_, call[u].handler, kTornReference}

\* handler_.lock() and onState of SendState while another thread is inside
\* the assignment of handler_
SendStateNotifyRacing(t, observed) ==
  /\ pc[t] = "recv_notify"
  /\ \E u \in Threads : pc[u] = "sub_write" /\ observed \in RacingReads(u)
  /\ LET invoked ==
           IF observed = kTornReference
           THEN <<[handler |-> kTornReference, state |-> call[t].state]>>
           ELSE Notifications(observed, alive, call[t].state)
     IN /\ on_state_count' = on_state_count + Len(invoked)
        /\ recv_count' = recv_count + 1
        /\ last_recv' = Some([request |-> call[t].request, status |-> OK,
                              seen_handler |-> observed, seen_alive |-> alive,
                              stopped |-> stop_requested_,
                              on_state |-> invoked])
  /\ Return(t)
  /\ UNCHANGED <<node, stop_count, last_subscribed, replaced, submitted,
                 stop_requested_, stop_mutex_, handler_, alive, calls,
                 stop_returned, send_dropped, factory_calls, dispatched>>

\* handler_.lock() and onState of SendState while no thread assigns handler_
SendStateNotifyOrdered(t) == ~Assigning /\ SendStateNotify(t)

NextRace ==
  \/ \E handler \in Handlers : subscribeBegin(Writer, handler)
  \/ subscribeEnd(Writer)
  \/ \E request \in Requests : SendStateValidate(Reader, request)
  \/ SendStateNotifyOrdered(Reader)
  \/ \E observed \in Handlers \cup {NoHandler, kTornReference} :
       SendStateNotifyRacing(Reader, observed)

SpecRace == Init /\ [][NextRace]_vars

(***************************************************************************)
(* Properties of the ordering pipelines (specification Spec).              *)
(***************************************************************************)
\* the last three elements of a sequence of at least three
LastThree(q) == <<q[Len(q) - 2], q[Len(q) - 1], q[Len(q)]>>

\* C4: every sync event yields exactly one RoundSwitch, emitted when the
\* event is delivered (so in the order of the events); its round is (b+1, 0)
\* for Commit and (b, r+1) for Reject and Nothing, its ledger_state is the
\* event's.
RoundSwitchComputation ==
  LET s == node[Local]
  IN /\ s.switch_count = s.sync_count
     /\ HasValue(s.last_event) <=> HasValue(s.last_switch)
     /\ HasValue(s.last_event) =>
          LET e == ValueOf(s.last_event)
              sw == ValueOf(s.last_switch)
          IN /\ e.sync_outcome = kCommit =>
                  sw.round = [block_round |-> e.round.block_round + 1,
                              reject_round |-> 0]
             /\ e.sync_outcome \in {kReject, kNothing} =>
                  sw.round = [block_round |-> e.round.block_round,
                              reject_round |-> e.round.reject_round + 1]
             /\ sw.ledger_state = e.ledger_state

\* two events delivered: a reject of (10,3), then a commit of (10,0)
RoundSwitchComputationWitness ==
  LET s == node[Local]
  IN /\ s.sync_count = 2
     /\ ValueOf(s.prev_switch).round = [block_round |-> 10, reject_round |-> 4]
     /\ ValueOf(s.last_event).sync_outcome = kCommit
     /\ ValueOf(s.last_switch).round = [block_round |-> 11, reject_round |-> 0]

\* the peer a role is bound to: element `index mod N` (counted from 0) of
\* the permutation derived from `hash`, looked up in ledger_peers
RolePeer(ledger_peers, hash, index) ==
  LET N == Len(ledger_peers)
      P == generatePermutation(hash, N)
  IN ledger_peers[P[(index % N) + 1] + 1]

\* the round a sync event leads to
CurrentOf(event) ==
  IF event.sync_outcome = kCommit
  THEN [block_round |-> event.round.block_round + 1, reject_round |-> 0]
  ELSE [block_round |-> event.round.block_round,
        reject_round |-> event.round.reject_round + 1]

\* the five bindings, with the RejectReject consumer `offset` reject rounds
\* after the current one
RoleBindings(event, hashes, offset) ==
  LET peers == event.ledger_state.ledger_peers
      current == CurrentOf(event)
  IN [kIssuer |-> RolePeer(peers, hashes[1], current.reject_round),
      kRejectRejectConsumer |->
        RolePeer(peers, hashes[1], current.reject_round + offset),
      kRejectCommitConsumer |-> RolePeer(peers, hashes[2], 0),
      kCommitRejectConsumer |-> RolePeer(peers, hashes[2], 1),
      kCommitCommitConsumer |-> RolePeer(peers, hashes[3], 0)]

\* C5 as stated: the CurrentPeers emitted for a sync event binds Issuer to
\* peers[P0[current.reject_round mod N]], RejectRejectConsumer to
\* peers[P0[(current.reject_round + 1) mod N]], RejectCommitConsumer to
\* peers[P1[0 mod N]], CommitRejectConsumer to peers[P1[1 mod N]] and
\* CommitCommitConsumer to peers[P2[0 mod N]].
RoleMappingAsStated ==
  LET s == node[Local]
  IN HasValue(s.last_peers) =>
       ValueOf(s.last_peers) =
         RoleBindings(ValueOf(s.last_pair).event, ValueOf(s.last_pair).hashes, 1)

\* C5 amended: the same bindings, except that RejectRejectConsumer is
\* peers[P0[(current.reject_round + 2) mod N]]; exactly one CurrentPeers is
\* emitted per tuple of sync_events_with_hashes.
RoleMapping ==
  LET s == node[Local]
  IN /\ s.peers_count = s.pair_count
     /\ HasValue(s.last_peers) <=> HasValue(s.last_pair)
     /\ HasValue(s.last_peers) =>
          ValueOf(s.last_peers) =
            RoleBindings(ValueOf(s.last_pair).event, ValueOf(s.last_pair).hashes, 2)

\* a reject of round (10,3) among three peers, after one commit: the current
\* round is (10,4), so the reject rounds 4 and 6 wrap around N = 3
RoleMappingWitness ==
  LET s == node[Local]
  IN /\ HasValue(s.last_peers)
     /\ Len(s.committed) = 1
     /\ ValueOf(s.last_pair).event.sync_outcome = kReject
     /\ ValueOf(s.last_pair).event.round = [block_round |-> 10, reject_round |-> 3]
     /\ Len(ValueOf(s.last_pair).event.ledger_state.ledger_peers) = 3
     /\ ValueOf(s.last_peers).kIssuer /= ValueOf(s.last_peers).kRejectRejectConsumer

\* C6: after k >= 1 commits the tuple a sync event consults is the last
\* three elements, in commit order, of H_a, H_b, B1, ..., Bk; after the
\* first commit it is (H_a, H_b, B1), and the Issuer of an event paired with
\* a window is taken from the permutation seeded by the window's first hash.
SlidingWindow ==
  LET s == node[Local]
      k == Len(s.committed)
      all == initial_hashes \o s.committed
  IN /\ k >= 1 => s.cm.latest = Some(LastThree(all))
     /\ k = 1 => s.cm.latest =
                   Some(<<initial_hashes[1], initial_hashes[2], s.committed[1]>>)
     /\ (k = 1 /\ HasValue(s.last_pair)) =>
          /\ ValueOf(s.last_pair).hashes =
               <<initial_hashes[1], initial_hashes[2], s.committed[1]>>
          /\ ValueOf(s.last_peers).kIssuer =
               RolePeer(ValueOf(s.last_pair).event.ledger_state.ledger_peers,
                        initial_hashes[1],
                        CurrentOf(ValueOf(s.last_pair).event).reject_round)

\* two different blocks committed, then a sync event: the window is
\* (H_b, B1, B2)
SlidingWindowWitness ==
  LET s == node[Local]
  IN /\ Len(s.committed) = 2
     /\ s.committed[1] /= s.committed[2]
     /\ s.cm.latest = Some(<<initial_hashes[2], s.committed[1], s.committed[2]>>)
     /\ HasValue(s.last_pair)
     /\ ValueOf(s.last_pair).hashes = ValueOf(s.cm.latest)

FinalHashes(block) == block.transactions \cup block.rejected_transactions_hashes

\* C9: the delivery of a committed block B emits exactly one hash set, the
\* union of the hashes of B.transactions and B.rejected_transactions_hashes,
\* and leaves no hash of that union in the gate cache.
EvictionSet ==
  [][LET s == node[Local]
         t == node'[Local]
     IN t.committed /= s.committed =>
          /\ t.evict_count = s.evict_count + 1
          /\ t.last_evict = Some(FinalHashes(ValueOf(t.last_block)))
          /\ t.cache \cap FinalHashes(ValueOf(t.last_block)) = {}
          /\ t.cache = s.cache \ FinalHashes(ValueOf(t.last_block))]_vars

\* a batch {t1, t2} was pending and a block with transaction t1 and rejected
\* hash t2 was committed: both left the cache
EvictionSetWitness ==
  LET s == node[Local]
  IN /\ HasValue(s.last_block)
     /\ ValueOf(s.last_block).transactions = {"t1"}
     /\ ValueOf(s.last_block).rejected_transactions_hashes = {"t2"}
     /\ s.last_evict = Some({"t1", "t2"})
     /\ s.evict_count = 2
     /\ s.cache = {}

\* C10 as stated: the rounds of the emitted RoundSwitch events are strictly
\* increasing, whatever sync events are delivered.
RoundMonotonicityAsStated ==
  LET s == node[Local]
  IN HasValue(s.prev_switch) =>
       RoundLess(ValueOf(s.prev_switch).round, ValueOf(s.last_switch).round)

\* C10 amended: a RoundSwitch has a strictly greater round than the
\* RoundSwitch before it whenever the sync event that caused it carries a
\* round that is not below the round of the RoundSwitch before it.
RoundMonotonicity ==
  LET s == node[Local]
  IN (/\ HasValue(s.prev_switch)
      /\ RoundLeq(ValueOf(s.prev_switch).round, ValueOf(s.last_event).round)) =>
       RoundLess(ValueOf(s.prev_switch).round, ValueOf(s.last_switch).round)

\* a commit of (10,0) switched to (11,0); then round (11,0) ended with
\* kNothing and the gate switched to (11,1)
RoundMonotonicityWitness ==
  LET s == node[Local]
  IN /\ HasValue(s.prev_switch)
     /\ ValueOf(s.prev_switch).round = [block_round |-> 11, reject_round |-> 0]
     /\ ValueOf(s.last_event).round = [block_round |-> 11, reject_round |-> 0]
     /\ ValueOf(s.last_event).sync_outcome = kNothing
     /\ ValueOf(s.last_switch).round = [block_round |-> 11, reject_round |-> 1]

StopSilencesSends ==
  /\ [](/\ \A i \in 1..Len(factory_calls) : ~factory_calls[i].after_stop
        /\ \A i \in 1..Len(dispatched) : ~dispatched[i].after_stop
        /\ \A t \in Threads :
             (call[t].op = "sendState" /\ call[t].after_stop) =>
               pc[t] \in {"send_lock", "send_check"}
        /\ stop_returned => stop_requested_)
  /\ [][stop_requested_ => stop_requested_']_vars

\* a stop() has returned, a sendState entered after it has returned at the
\* stop check, and no client was ever created
StopSilencesSendsWitness ==
  /\ stop_returned
  /\ send_dropped >= 1
  /\ factory_calls = <<>>
  /\ dispatched = <<>>
  /\ \A t \in Threads : pc[t] = "idle"

\* the votes of a message whose signatures can be deserialized, as
\* VoteMessages in message order
RECURSIVE GoodVotes(_)
GoodVotes(request) ==
  IF request = <<>> THEN <<>>
  ELSE IF Head(request).valid
       THEN <<[hash |-> Head(request).hash, round |-> Head(request).round]>>
              \o GoodVotes(Tail(request))
       ELSE GoodVotes(Tail(request))

\* every vote of a message, as a VoteMessage
AllVotes(request) ==
  [i \in 1..Len(request) |-> [hash |-> request[i].hash, round |-> request[i].round]]

OneRound(votes) ==
  \A i, j \in 1..Len(votes) : votes[i].round = votes[j].round

\* C2 as stated: a message is accepted iff its vote list is non-empty and
\* all its votes share one (block_round, reject_round); a rejected one yields
\* CANCELLED, an accepted one a status that is not CANCELLED.
VoteBundleAcceptanceAsStated ==
  HasValue(last_recv) =>
    LET r == ValueOf(last_recv)
    IN /\ r.status \in {OK, CANCELLED}
       /\ r.status = OK <=> (r.request /= <<>> /\ OneRound(r.request))

\* C2 amended: a message is accepted iff the votes of it that deserialize are
\* non-empty and share one (block_round, reject_round); a rejected one yields
\* CANCELLED, an accepted one OK.
VoteBundleAcceptance ==
  /\ HasValue(last_recv) =>
       LET r == ValueOf(last_recv)
       IN /\ r.status \in {OK, CANCELLED}
          /\ r.status = OK <=>
               (GoodVotes(r.request) /= <<>> /\ OneRound(GoodVotes(r.request)))
  /\ \A t \in Threads :
       pc[t] = "recv_notify" =>
         (GoodVotes(call[t].request) /= <<>> /\ OneRound(GoodVotes(call[t].request)))

\* a message of rounds (5,0) and (5,1) whose first vote does not deserialize
\* was accepted, after another message had been answered
VoteBundleAcceptanceWitness ==
  /\ recv_count = 2
  /\ ValueOf(last_recv).status = OK
  /\ Len(ValueOf(last_recv).request) = 2
  /\ ~OneRound(ValueOf(last_recv).request)

\* a live subscriber at the time the rpc looked for one
LiveSubscriber(r) ==
  r.seen_handler /= NoHandler /\ r.seen_handler \in r.seen_alive

\* C3 as stated: an rpc that returns CANCELLED invokes no onState; an rpc
\* that accepts its bundle with a live subscriber invokes onState exactly
\* once, with the votes of the bundle.
RejectedNeverReachesHandlerAsStated ==
  HasValue(last_recv) =>
    LET r == ValueOf(last_recv)
    IN /\ r.status = CANCELLED => r.on_state = <<>>
       /\ (r.status = OK /\ LiveSubscriber(r)) =>
            r.on_state = <<[handler |-> r.seen_handler,
                            state |-> AllVotes(r.request)]>>

\* C3 amended: an rpc that returns CANCELLED invokes no onState; an rpc that
\* accepts its bundle with a live subscriber invokes onState exactly once,
\* with the votes of the bundle that deserialize, in message order; no other
\* step invokes onState.
RejectedNeverReachesHandler ==
  [][/\ recv_count' = recv_count + 1 =>
          LET r == ValueOf(last_recv')
          IN /\ r.status = CANCELLED =>
                  /\ r.on_state = <<>>
                  /\ on_state_count' = on_state_count
             /\ (r.status = OK /\ LiveSubscriber(r)) =>
                  /\ r.on_state = <<[handler |-> r.seen_handler,
                                     state |-> GoodVotes(r.request)]>>
                  /\ on_state_count' = on_state_count + 1
             /\ (r.status = OK /\ ~LiveSubscriber(r)) =>
                  /\ r.on_state = <<>>
                  /\ on_state_count' = on_state_count
     /\ recv_count' = recv_count => on_state_count' = on_state_count]_vars

\* a bundle of rounds (5,0) and (5,1) was answered CANCELLED after an
\* accepted bundle had been handed to the subscriber: one onState in all
RejectedNeverReachesHandlerWitness ==
  /\ recv_count = 2
  /\ on_state_count = 1
  /\ ValueOf(last_recv).status = CANCELLED
  /\ ValueOf(last_recv).request =
       <<PbVote("a", R50, TRUE), PbVote("b", R51, TRUE)>>
  /\ LiveSubscriber(ValueOf(last_recv))

\* C11: every stop() that returns leaves the stop flag set and changes
\* neither the subscription nor what was sent; a stop() after the first
\* changes nothing of the transport (flag, subscription, lock, sends); and
\* once a stop() has returned every sendState that reaches the stop check
\* returns there without calling the client factory.
StopIdempotence ==
  [][/\ (stop_count' = stop_count + 1) =>
          /\ stop_requested_'
          /\ stop_mutex_' = Unlocked
          /\ handler_' = handler_ /\ alive' = alive
          /\ factory_calls' = factory_calls /\ dispatched' = dispatched
     /\ (stop_count' = stop_count + 1 /\ stop_count >= 1) =>
          /\ stop_requested_ /\ stop_requested_' = stop_requested_
          /\ stop_mutex_' = Unlocked
     /\ \A t \in Threads :
          (stop_count >= 1 /\ pc[t] = "send_check" /\ pc'[t] /= "send_check") =>
            /\ pc'[t] = "idle"
            /\ send_dropped' = send_dropped + 1
            /\ factory_calls' = factory_calls /\ dispatched' = dispatched
            /\ stop_requested_' /\ handler_' = handler_]_vars

\* two stop() calls have returned and a sendState has returned at the stop
\* check
StopIdempotenceWitness ==
  /\ stop_count = 2
  /\ stop_requested_
  /\ send_dropped = 1
  /\ factory_calls = <<>>
  /\ \A t \in Threads : pc[t] = "idle"

\* C12: every onState invocation goes to the handler of the latest subscribe
\* call and to no other handler, in particular not to the handler that call
\* replaced; a bundle is handed to at most one handler.
SubscribeReplaces ==
  [][on_state_count' /= on_state_count =>
       /\ on_state_count' = on_state_count + 1
       /\ HasValue(last_recv')
       /\ LET r == ValueOf(last_recv')
          IN /\ Len(r.on_state) = 1
             /\ r.on_state[1].handler = last_subscribed
             /\ last_subscribed /= replaced => r.on_state[1].handler /= replaced
             /\ r.on_state[1].handler \in alive]_vars

\* subscribe(h1), then subscribe(h2), then a bundle that is accepted and
\* handed to h2 while h1 is still owned
SubscribeReplacesWitness ==
  /\ calls = 3
  /\ replaced = "h1"
  /\ last_subscribed = "h2"
  /\ "h1" \in alive
  /\ HasValue(last_recv)
  /\ ValueOf(last_recv).status = OK
  /\ Len(ValueOf(last_recv).on_state) = 1
  /\ ValueOf(last_recv).on_state[1].handler = "h2"

\* C13 as stated: a bundle whose vote list is non-empty and of one round,
\* received while no handler is attached, invokes no onState and is not
\* answered CANCELLED.
NoSubscriberDropAsStated ==
  HasValue(last_recv) =>
    LET r == ValueOf(last_recv)
    IN (r.request /= <<>> /\ OneRound(AllVotes(r.request)) /\ ~LiveSubscriber(r)) =>
         (r.on_state = <<>> /\ r.status /= CANCELLED)

\* C13 amended: a bundle whose votes that deserialize are non-empty and of
\* one round, received while no handler is attached (never subscribed, or
\* destroyed), is answered OK and invokes no onState; it is not handed to a
\* handler subscribed later (onState is invoked only by the rpc that carries
\* the bundle, never by subscribe); and the transport keeps no handler alive
\* (no step of it returns a destroyed handler to its owners).
NoSubscriberDrop ==
  /\ [](HasValue(last_recv) =>
          LET r == ValueOf(last_recv)
          IN (/\ GoodVotes(r.request) /= <<>>
              /\ OneRound(GoodVotes(r.request))
              /\ ~LiveSubscriber(r)) =>
               (r.on_state = <<>> /\ r.status = OK))
  /\ [][/\ recv_count' = recv_count => on_state_count' = on_state_count
        /\ (recv_count' = recv_count + 1 /\ ~LiveSubscriber(ValueOf(last_recv'))) =>
             on_state_count' = on_state_count
        /\ alive' \subseteq alive
        /\ recv_count' /= recv_count => alive' = alive]_vars

\* h1 was subscribed and destroyed, a good bundle then arrived and was
\* answered OK without any onState, and h2 subscribed afterwards has not
\* been handed anything
NoSubscriberDropWitness ==
  /\ HasValue(last_recv)
  /\ ValueOf(last_recv).status = OK
  /\ ValueOf(last_recv).on_state = <<>>
  /\ ValueOf(last_recv).seen_handler = "h1"
  /\ "h1" \notin ValueOf(last_recv).seen_alive
  /\ replaced = "h1"
  /\ handler_ = "h2"
  /\ "h2" \in alive
  /\ on_state_count = 0
  /\ \A t \in Threads : pc[t] = "idle"

(***************************************************************************)
(* Properties of the ordering pipeline when a ledger state has no peers    *)
(* (specification SpecEmptyPeers).                                         *)
(***************************************************************************)
\* C14: the delivery of a sync event whose ledger state has no peers exposes
\* no CurrentPeers for it and leaves the previous binding in place, and the
\* node goes on processing events.
EmptyPeersRefused ==
  [][(/\ node'[Local].sync_count = node[Local].sync_count + 1
      /\ Len(ValueOf(node'[Local].last_event).ledger_state.ledger_peers) = 0) =>
       /\ node'[Local].peers_count = node[Local].peers_count
       /\ node'[Local].last_peers = node[Local].last_peers
       /\ ~node'[Local].terminated]_vars

\* after a first commit a sync event without peers reached map_peers: the
\* process was ended by the division, or a binding read from nowhere was
\* exposed
EmptyPeersReached ==
  /\ Len(node[Local].committed) >= 1
  /\ HasValue(node[Local].last_event)
  /\ Len(ValueOf(node[Local].last_event).ledger_state.ledger_peers) = 0
  /\ \/ node[Local].terminated
     \/ /\ HasValue(node[Local].last_peers)
        /\ ValueOf(node[Local].last_peers).kIssuer = GarbagePeer

(***************************************************************************)
(* Further properties of the ordering pipelines (specification Spec).      *)
(***************************************************************************)
\* C15: as long as no block has been committed on top of the two initial
\* hashes, the hash window has emitted nothing and no sync event, however
\* many have been delivered, has produced a tuple or a CurrentPeers.
NoBindingBeforePrimed ==
  Len(node[Local].committed) = 0 =>
    /\ ~HasValue(node[Local].cm.latest)
    /\ node[Local].pair_count = 0
    /\ node[Local].peers_count = 0
    /\ ~HasValue(node[Local].last_peers)

\* two sync events were delivered before any commit and left no binding
NoBindingBeforePrimedWitness ==
  /\ Len(node[Local].committed) = 0
  /\ node[Local].sync_count = 2
  /\ node[Local].switch_count = 2
  /\ node[Local].peers_count = 0

\* C16 as stated: every delivered sync event has produced exactly one tuple
\* and exactly one CurrentPeers, whatever number of blocks was committed
\* when it arrived.
OneBindingPerSyncEventAsStated ==
  /\ node[Local].pair_count = node[Local].sync_count
  /\ node[Local].peers_count = node[Local].sync_count

\* C16 amended: a sync event delivered after at least one commit produces
\* exactly one tuple, which carries that event, and exactly one CurrentPeers;
\* a sync event delivered before the first commit produces neither; nothing
\* else produces a tuple or a CurrentPeers.
OneBindingPerSyncEvent ==
  [][LET s == node[Local]
         s1 == node'[Local]
     IN /\ (s1.sync_count = s.sync_count + 1 /\ Len(s.committed) >= 1) =>
             /\ s1.pair_count = s.pair_count + 1
             /\ s1.peers_count = s.peers_count + 1
             /\ ValueOf(s1.last_pair).event = ValueOf(s1.last_event)
             /\ ValueOf(s1.last_pair).hashes = LastThree(initial_hashes \o s.committed)
        /\ (s1.sync_count = s.sync_count + 1 /\ Len(s.committed) = 0) =>
             /\ s1.pair_count = s.pair_count
             /\ s1.peers_count = s.peers_count
        /\ s1.sync_count = s.sync_count =>
             /\ s1.pair_count = s.pair_count
             /\ s1.peers_count = s.peers_count]_vars

\* of two sync events the one delivered before the first commit produced
\* nothing and the one delivered after it produced one tuple and one
\* CurrentPeers
OneBindingPerSyncEventWitness ==
  /\ node[Local].sync_count = 2
  /\ Len(node[Local].committed) = 1
  /\ node[Local].pair_count = 1
  /\ node[Local].peers_count = 1
  /\ ValueOf(node[Local].last_pair).event = ValueOf(node[Local].last_event)

\* the same sync event with Reject in the place of Nothing and Nothing in
\* the place of Reject
SwapRejectNothing(event) ==
  [event EXCEPT !.sync_outcome = IF @ = kReject THEN kNothing
                                 ELSE IF @ = kNothing THEN kReject ELSE @]

\* C19: the last sync event, when its outcome is Reject or Nothing, has
\* yielded the RoundSwitch that the same event with the other of the two
\* outcomes yields, and, when it was paired with a hash window, the
\* CurrentPeers that the other outcome yields on that window.
NothingEqualsReject ==
  LET s == node[Local]
  IN (HasValue(s.last_event) /\
      ValueOf(s.last_event).sync_outcome \in {kReject, kNothing}) =>
       LET event == ValueOf(s.last_event)
           other == SwapRejectNothing(event)
       IN /\ other /= event
          /\ s.last_switch = Some(GateSyncEventMap(other))
          /\ (HasValue(s.last_pair) /\ ValueOf(s.last_pair).event = event) =>
               s.last_peers = Some(map_peers(other, ValueOf(s.last_pair).hashes))

\* a Nothing event over three peers was delivered after a commit and produced
\* a RoundSwitch (10,4) and a CurrentPeers
NothingEqualsRejectWitness ==
  /\ HasValue(node[Local].last_event)
  /\ ValueOf(node[Local].last_event).sync_outcome = kNothing
  /\ ValueOf(node[Local].last_event).round = [block_round |-> 10, reject_round |-> 3]
  /\ Len(ValueOf(node[Local].last_event).ledger_state.ledger_peers) = 3
  /\ ValueOf(node[Local].last_switch).round = [block_round |-> 10, reject_round |-> 4]
  /\ HasValue(node[Local].last_pair)
  /\ ValueOf(node[Local].last_pair).event = ValueOf(node[Local].last_event)
  /\ HasValue(node[Local].last_peers)

\* the elements of a sequence
Elements(seq) == {seq[i] : i \in 1..Len(seq)}

\* C22: the CurrentPeers exposed is the one computed for the last paired
\* sync event alone: it binds all five roles, each to a peer of that event's
\* ledger_peers, through permutations of [0, N) indexed within [0, N), and
\* nothing of it comes from an earlier event.
WholeValueInRange ==
  LET s == node[Local]
  IN HasValue(s.last_peers) =>
       /\ HasValue(s.last_pair)
       /\ LET event == ValueOf(s.last_pair).event
              hashes == ValueOf(s.last_pair).hashes
              peers == event.ledger_state.ledger_peers
              N == Len(peers)
              bindings == ValueOf(s.last_peers)
          IN /\ N >= 1
             /\ DOMAIN bindings = Roles
             /\ \A role \in Roles : bindings[role] \in Elements(peers)
             /\ \A k \in 1..3 :
                  LET P == generatePermutation(hashes[k], N)
                  IN Len(P) = N /\ Elements(P) = 0..(N - 1)
             /\ bindings = map_peers(event, hashes)

\* a second CurrentPeers was emitted, for a ledger state of one peer at
\* reject round 4: all five roles are bound to that peer
WholeValueInRangeWitness ==
  /\ node[Local].peers_count = 2
  /\ ValueOf(node[Local].last_pair).event.ledger_state.ledger_peers = <<"pA">>
  /\ ValueOf(node[Local].last_switch).round = [block_round |-> 10, reject_round |-> 4]
  /\ \A role \in Roles : ValueOf(node[Local].last_peers)[role] = "pA"

(***************************************************************************)
(* Further properties of the voting transport (specification SpecNet).     *)
(***************************************************************************)
\* C17 as stated: no request handed to the asynchronous call layer was
\* preceded there by the request of a sendState for the same peer that was
\* submitted later, also when the calls came from different threads.
PerDestinationSendOrderAsStated ==
  \A i \in 1..Len(dispatched) : ~dispatched[i].overtaken

\* C17 amended: requests are handed to the asynchronous call layer one at a
\* time, by the thread that holds stop_mutex_, each behind all requests
\* handed over before; so the request of a call that has returned stays
\* ahead of the request of every call submitted later, and a call is
\* overtaken only while it is in progress and waits for the lock.
PerDestinationSendOrder ==
  [][/\ dispatched' /= dispatched =>
          \E t \in Threads :
            /\ pc[t] = "send_create" /\ pc'[t] = "idle"
            /\ stop_mutex_ = t
            /\ Len(dispatched') = Len(dispatched) + 1
            /\ SubSeq(dispatched', 1, Len(dispatched)) = dispatched
            /\ dispatched'[Len(dispatched')].to = call[t].to
            /\ dispatched'[Len(dispatched')].request =
                 [i \in 1..Len(call[t].state) |-> serializeVote(call[t].state[i])]
     /\ \A u \in Threads :
          (/\ call[u].op = "sendState" /\ ~call[u].overtaken
           /\ call'[u].op = "sendState" /\ call'[u].overtaken) =>
            /\ pc[u] = "send_lock"
            /\ Len(dispatched') = Len(dispatched) + 1
            /\ dispatched'[Len(dispatched')].to = call[u].to]_vars

\* two calls for peerX were in progress together and the one submitted
\* first handed its request over last
PerDestinationSendOrderWitness ==
  /\ Len(dispatched) = 2
  /\ dispatched[1].to = "peerX" /\ dispatched[2].to = "peerX"
  /\ ~dispatched[1].overtaken
  /\ dispatched[2].overtaken
  /\ \A t \in Threads : pc[t] = "idle"

\* C18: a sendState whose createClient yields no client returns without
\* handing over a request and without a second createClient, and leaves the
\* stop flag, the subscription and the handlers as they were and the lock
\* free, so that the next sendState finds the transport as before.
SendFailureIsLocal ==
  [][\A t \in Threads :
       (pc[t] = "send_create" /\ pc'[t] /= "send_create" /\ dispatched' = dispatched) =>
         /\ pc'[t] = "idle" /\ call'[t] = NoCall
         /\ Len(factory_calls') = Len(factory_calls) + 1
         /\ stop_requested_' = stop_requested_ /\ ~stop_requested_'
         /\ handler_' = handler_ /\ alive' = alive
         /\ stop_mutex_ = t /\ stop_mutex_' = Unlocked
         /\ \A u \in Threads \ {t} : pc'[u] = pc[u] /\ call'[u] = call[u]]_vars

\* with h1 subscribed, no client could be created for peerX, and the next
\* createClient, for peerY, gave one and its request was handed over
SendFailureIsLocalWitness ==
  /\ Len(factory_calls) = 2
  /\ factory_calls[1].to = "peerX"
  /\ factory_calls[2].to = "peerY"
  /\ Len(dispatched) = 1
  /\ dispatched[1].to = "peerY"
  /\ handler_ = "h1"
  /\ ~stop_requested_
  /\ stop_mutex_ = Unlocked
  /\ \A t \in Threads : pc[t] = "idle"

\* C20 as stated: a sendState that has passed the flag check and is
\* serializing, creating the client or dispatching no longer holds
\* stop_mutex_.
StopLockScopeAsStated ==
  \A t \in Threads : pc[t] = "send_create" => stop_mutex_ /= t

\* C20 amended: a sendState holds stop_mutex_ from before it reads the flag
\* until it returns, through serialization, client creation and dispatch; no
\* stop() completes, and the flag does not change, while a sendState that
\* passed the check has not returned.
StopLockScope ==
  /\ [](\A t \in Threads :
          pc[t] \in {"send_check", "send_create"} => stop_mutex_ = t)
  /\ [][(\E t \in Threads : pc[t] = "send_create") =>
          /\ stop_count' = stop_count
          /\ stop_requested_' = stop_requested_
          /\ \A u \in Threads : pc[u] = "stop_lock" => pc'[u] = "stop_lock"]_vars

\* thread 1 has passed the flag check of sendState and holds the lock while
\* thread 2, inside stop(), waits for it
StopLockScopeWitness ==
  /\ pc[1] = "send_create"
  /\ pc[2] = "stop_lock"
  /\ stop_mutex_ = 1
  /\ ~stop_requested_

\* the positions of stop() and sendState that read or write stop_requested_
\* or act on what was read
InCriticalSection(t) == pc[t] \in {"stop_set", "send_check", "send_create"}

\* C25: stop() and sendState exclude each other: at most one thread is
\* between taking stop_mutex_ and returning; a sendState that reads the flag
\* set calls neither the factory nor async_call_; every factory call and
\* dispatch is made while the flag is clear; and when stop() returns no
\* sendState is between its flag check and its dispatch.
StopSendExclusion ==
  /\ [](\A t, u \in Threads :
          (InCriticalSection(t) /\ InCriticalSection(u)) => t = u)
  /\ [][/\ (\E t \in Threads : pc[t] = "send_check" /\ stop_requested_) =>
              (/\ factory_calls' = factory_calls
               /\ dispatched' = dispatched
               /\ \A t \in Threads :
                    pc[t] = "send_check" => pc'[t] /= "send_create")
        /\ (factory_calls' /= factory_calls \/ dispatched' /= dispatched) =>
              (~stop_requested_ /\ ~stop_requested_')
        /\ (stop_count' = stop_count + 1) =>
              (\A u \in Threads :
                 pc'[u] \notin {"send_check", "send_create"})]_vars

\* one sendState was dispatched before any stop() returned, a stop() has
\* returned, and a later sendState read the flag and returned without
\* dispatching
StopSendExclusionWitness ==
  /\ stop_count = 1
  /\ stop_requested_
  /\ send_dropped = 1
  /\ Len(dispatched) = 1
  /\ ~dispatched[1].after_stop
  /\ Len(factory_calls) = 1

\* C26: the votes of an inbound message that do not deserialize are dropped
\* before the checks: the rpc goes on with exactly the votes that
\* deserialize, in message order; when these are non-empty and of one round
\* the message is accepted and a handler that is invoked receives them and
\* no others; a non-empty message none of whose votes deserializes returns
\* CANCELLED and invokes nothing.
FilteredBeforeValidation ==
  /\ \A t \in Threads :
       pc[t] = "recv_notify" => call[t].state = GoodVotes(call[t].request)
  /\ HasValue(last_recv) =>
       LET r == ValueOf(last_recv)
           remaining == GoodVotes(r.request)
       IN /\ (remaining /= <<>> /\ OneRound(remaining)) =>
               /\ r.status = OK
               /\ \A i \in 1..Len(r.on_state) : r.on_state[i].state = remaining
          /\ (r.request /= <<>> /\ remaining = <<>>) =>
               /\ r.status = CANCELLED
               /\ r.on_state = <<>>

\* with h1 subscribed, a message whose first vote, of round (5,0), does not
\* deserialize and whose second, of round (5,1), does was accepted, and h1
\* received the second vote alone
FilteredBeforeValidationWitness ==
  /\ HasValue(last_recv)
  /\ ValueOf(last_recv).request = <<PbVote("a", R50, FALSE), PbVote("b", R51, TRUE)>>
  /\ ValueOf(last_recv).status = OK
  /\ ValueOf(last_recv).on_state = <<[handler |-> "h1", state |-> <<Vote("b", R51)>>]>>

\* C29: a step of stop() leaves the handler and everything the rpc has
\* recorded as they are; whether or not stop() has been called, an rpc
\* answers CANCELLED exactly for the bundles the two checks reject and
\* otherwise answers OK and notifies the handler that handler_ refers to, and
\* a subscribe replaces the handler.
StopLeavesReceivePath ==
  [][/\ (\E t \in Threads :
            pc[t] \in {"stop_lock", "stop_set"} /\ pc'[t] /= pc[t]) =>
          (/\ handler_' = handler_
           /\ alive' = alive
           /\ recv_count' = recv_count
           /\ last_recv' = last_recv
           /\ on_state_count' = on_state_count
           /\ last_subscribed' = last_subscribed
           /\ \A u \in Threads : pc[u] = "recv_notify" => call'[u] = call[u])
     /\ (recv_count' = recv_count + 1) =>
          (LET r == ValueOf(last_recv')
               state == DeserializeVotes(r.request)
           IN /\ r.stopped = stop_requested_
              /\ r.status = IF Rejected(state) THEN CANCELLED ELSE OK
              /\ r.on_state = IF Rejected(state) THEN <<>>
                              ELSE Notifications(handler_, alive, state)
              /\ on_state_count' = on_state_count + Len(r.on_state))
     /\ (calls' = calls + 1 /\ pc' = pc /\ recv_count' = recv_count) =>
          (handler_' = last_subscribed' /\ handler_' \in Handlers)]_vars

\* after a stop() had returned, an rpc with one vote notified h1
StopLeavesReceivePathWitness ==
  /\ stop_count = 1
  /\ HasValue(last_recv)
  /\ ValueOf(last_recv).stopped
  /\ ValueOf(last_recv).status = OK
  /\ ValueOf(last_recv).on_state =
       <<[handler |-> "h1", state |-> <<Vote("a", R50)>>]>>

(***************************************************************************)
(* Properties of subscribe racing with the rpc (specification SpecRace).   *)
(***************************************************************************)
\* C21: every handler_.lock() of SendState observes the handler of the last
\* completed subscribe or, in full, the handler a concurrent subscribe is
\* assigning, and never a partially written reference.
AtomicHandlerReference ==
  [][recv_count' = recv_count + 1 =>
       LET r == ValueOf(last_recv')
       IN r.status = OK =>
            /\ r.seen_handler \in
                 {handler_} \cup {call[u].handler : u \in {v \in Threads : pc[v] = "sub_write"}}
            /\ \A i \in 1..Len(r.on_state) :
                 r.on_state[i].handler \in Handlers]_vars

\* with h1 subscribed, an rpc read handler_ while subscribe(h2) was assigning
\* it and took a mixed reference for a handler
RacingReadReached ==
  /\ HasValue(last_recv)
  /\ ValueOf(last_recv).seen_handler = kTornReference
  /\ Len(ValueOf(last_recv).on_state) = 1
  /\ replaced = "h1"
  /\ handler_ = "h2"

(***************************************************************************)
(* Agreement of the gate and the connection manager (specification Spec).  *)
(***************************************************************************)
\* C24: when the latest sync event produced both a RoundSwitch and a
\* CurrentPeers, the round of the RoundSwitch is the round map_peers advanced
\* to, and the Issuer is the peer selected by the reject_round of that round,
\* whatever the outcome of the event.
GateAndManagerAgree ==
  LET s == node[Local]
  IN (/\ HasValue(s.last_pair)
      /\ HasValue(s.last_event)
      /\ ValueOf(s.last_pair).event = ValueOf(s.last_event)) =>
       LET event == ValueOf(s.last_event)
           switch == ValueOf(s.last_switch)
       IN /\ event.sync_outcome \in {kCommit, kReject, kNothing}
          /\ switch.round = AdvanceRound(event.round, event.sync_outcome)
          /\ ValueOf(s.last_peers).kIssuer =
               RolePeer(event.ledger_state.ledger_peers,
                        ValueOf(s.last_pair).hashes[1],
                        switch.round.reject_round)

\* a reject of round (10,3) over three peers produced both values: the
\* RoundSwitch carries (10,4) and the Issuer is not the peer that the
\* reject_round of the event itself would select
GateAndManagerAgreeWitness ==
  LET s == node[Local]
  IN /\ HasValue(s.last_pair)
     /\ HasValue(s.last_event)
     /\ ValueOf(s.last_pair).event = ValueOf(s.last_event)
     /\ ValueOf(s.last_event).sync_outcome = kReject
     /\ ValueOf(s.last_event).round = [block_round |-> 10, reject_round |-> 3]
     /\ Len(ValueOf(s.last_event).ledger_state.ledger_peers) = 3
     /\ ValueOf(s.last_switch).round = [block_round |-> 10, reject_round |-> 4]
     /\ ValueOf(s.last_peers).kIssuer /=
          RolePeer(ValueOf(s.last_event).ledger_state.ledger_peers,
                   ValueOf(s.last_pair).hashes[1], 3)

\* C27: the delivery of a committed block emits exactly one eviction set and
\* advances the hash window by the hash of the block, and emits no
\* CurrentPeers and no RoundSwitch: the bindings and the round exposed before
\* the block are the ones exposed after it.
CommitChangesNoBinding ==
  [][LET s == node[Local]
         t == node'[Local]
     IN t.committed /= s.committed =>
          /\ t.evict_count = s.evict_count + 1
          /\ t.last_evict = Some(GateCommitMap(ValueOf(t.last_block)))
          /\ t.cm.latest = Some(LastThree(initial_hashes \o t.committed))
          /\ t.peers_count = s.peers_count
          /\ t.last_peers = s.last_peers
          /\ t.switch_count = s.switch_count
          /\ t.last_switch = s.last_switch]_vars

\* a block was committed after the only sync event: the window has moved on
\* from the one the event was paired with, and the exposed bindings are still
\* those of the event, not the ones the new window would give
CommitChangesNoBindingWitness ==
  LET s == node[Local]
  IN /\ s.sync_count = 1
     /\ s.peers_count = 1
     /\ Len(s.committed) = 2
     /\ ValueOf(s.last_pair).hashes /= ValueOf(s.cm.latest)
     /\ ValueOf(s.last_peers) =
          map_peers(ValueOf(s.last_pair).event, ValueOf(s.last_pair).hashes)
     /\ ValueOf(s.last_peers) /=
          map_peers(ValueOf(s.last_pair).event, ValueOf(s.cm.latest))

\* C28 as stated: in every CurrentPeers emitted for a list of N >= 2 distinct
\* peers the Issuer and the RejectRejectConsumer are different peers, and the
\* RejectCommitConsumer and the CommitRejectConsumer are different peers.
AdjacentRolesDistinctAsStated ==
  LET s == node[Local]
  IN HasValue(s.last_peers) =>
       LET peers == ValueOf(s.last_peers)
           N == Len(ValueOf(s.last_pair).event.ledger_state.ledger_peers)
       IN N >= 2 =>
            /\ peers.kIssuer /= peers.kRejectRejectConsumer
            /\ peers.kRejectCommitConsumer /= peers.kCommitRejectConsumer

\* C28 amended: the RejectCommitConsumer and the CommitRejectConsumer are
\* different peers for N >= 2; the Issuer and the RejectRejectConsumer, two
\* positions apart in one permutation, are different peers for N >= 3 and
\* the same peer for N = 2.
AdjacentRolesDistinct ==
  LET s == node[Local]
  IN HasValue(s.last_peers) =>
       LET peers == ValueOf(s.last_peers)
           N == Len(ValueOf(s.last_pair).event.ledger_state.ledger_peers)
       IN /\ N >= 2 => peers.kRejectCommitConsumer /= peers.kCommitRejectConsumer
          /\ N >= 3 => peers.kIssuer /= peers.kRejectRejectConsumer
          /\ N = 2 => peers.kIssuer = peers.kRejectRejectConsumer

\* a reject of round (10,3) among three peers: the Issuer, at position
\* 4 mod 3, and the RejectRejectConsumer, at position 6 mod 3, differ, and so
\* do the two consumers taken from the next round's permutation
AdjacentRolesDistinctWitness ==
  LET s == node[Local]
  IN /\ HasValue(s.last_peers)
     /\ Len(ValueOf(s.last_pair).event.ledger_state.ledger_peers) = 3
     /\ ValueOf(s.last_pair).event.sync_outcome = kReject
     /\ ValueOf(s.last_pair).event.round = [block_round |-> 10, reject_round |-> 3]
     /\ ValueOf(s.last_peers).kIssuer /= ValueOf(s.last_peers).kRejectRejectConsumer
     /\ ValueOf(s.last_peers).kRejectCommitConsumer /=
          ValueOf(s.last_peers).kCommitRejectConsumer

(***************************************************************************)
(* Properties of the ordering pipeline when a sync outcome is unknown      *)
(* (specification SpecUnknownOutcome).                                     *)
(***************************************************************************)
\* C23: the delivery of a sync event of unknown outcome either stops the
\* process (a build with assertions) or emits neither a RoundSwitch nor a
\* CurrentPeers for it (a build without).
UnknownOutcomeStalls ==
  [][(/\ node'[Local].sync_count = node[Local].sync_count + 1
      /\ ValueOf(node'[Local].last_event).sync_outcome = kUnknown) =>
       \/ node'[Local].terminated
       \/ /\ node'[Local].switch_count = node[Local].switch_count
          /\ node'[Local].last_switch = node[Local].last_switch
          /\ node'[Local].peers_count = node[Local].peers_count
          /\ node'[Local].last_peers = node[Local].last_peers]_vars

\* after a commit, a build without assertions was given an event of unknown
\* outcome at round (10,3) and emitted a RoundSwitch to a round unrelated to
\* it and a CurrentPeers
UnknownOutcomeReached ==
  /\ ~node[Local].terminated
  /\ HasValue(node[Local].last_event)
  /\ ValueOf(node[Local].last_event).sync_outcome = kUnknown
  /\ ValueOf(node[Local].last_event).round = [block_round |-> 10, reject_round |-> 3]
  /\ ValueOf(node[Local].last_switch).round = [block_round |-> 0, reject_round |-> 0]
  /\ HasValue(node[Local].last_pair)
  /\ ValueOf(node[Local].last_pair).event = ValueOf(node[Local].last_event)
  /\ HasValue(node[Local].last_peers)

====
